---- MODULE Spec2Model ----
(***************************************************************************)
(* GuardLocker: the honey-encryption codec (HoneyEncoder), the symbol      *)
(* table (VaultTokenizer) and the envelope (HoneyVault).                   *)
(*                                                                         *)
(* Representation.                                                         *)
(*  - A Python str is a sequence of code points; '<SEP>' is the five       *)
(*    characters  < S E P >.                                               *)
(*  - A Python int that holds seed bits is unbounded; it is a sequence of  *)
(*    bits, least significant first, with no leading (high) zero, so that  *)
(*    equal numbers are equal sequences.  <<>> is 0.                       *)
(*  - A bytes object is [len, val]: its length and its big-endian value.   *)
(*  - A probability is a float c / 2^ProbBits, given by its numerator c;   *)
(*    float32 and float64 hold such a number exactly, so cumsum, the       *)
(*    products with 2^bits and int() are exact for them.                   *)
(*  - A random draw (secrets.randbelow, torch.multinomial) is a choice     *)
(*    among all its values: an operator that draws returns the set of its  *)
(*    outcomes.  A fresh salt, nonce or clock reading is a counter value.  *)
(*  - An AES-GCM ciphertext is a record of the key, the nonce and the      *)
(*    plaintext it seals; it opens under that key and nonce only, and not  *)
(*    at all once a byte was flipped.                                      *)
(*  - An exception is the field raised of what a call returns.             *)
(***************************************************************************)
EXTENDS Integers, Sequences, FiniteSets, TLC

(***************************************************************************)
(* Bounds of the model.                                                    *)
(***************************************************************************)
\* probabilities are multiples of 2^-ProbBits
ProbBits == 3
\* the passwords of a vault handed to the encoder have at most MaxChars characters
\* in all
MaxChars == 2
\* arbitrary seeds handed to the decoder are values below 2^MaxSeedBits
MaxSeedBits == 5
\* max_passwords handed to the decoder with an arbitrary seed is at most MaxK
MaxK == 2
\* the small max_total_length handed to the decoder, beside the default
SmallTotalLength == 3

Min(a, b) == IF a <= b THEN a ELSE b
Max(a, b) == IF a >= b THEN a ELSE b

(***************************************************************************)
(* Unbounded integers (seed_value, seed_chunk, seed_start, seed_end).      *)
(***************************************************************************)
Zeros(n) == [i \in 1..n |-> 0]

RECURSIVE Norm(_)
Norm(b) ==
    IF b = <<>> THEN <<>>
    ELSE IF b[Len(b)] = 0 THEN Norm(SubSeq(b, 1, Len(b) - 1))
    ELSE b

RECURSIVE FromNat(_)
FromNat(n) == IF n = 0 THEN <<>> ELSE <<n % 2>> \o FromNat(n \div 2)

\* the machine integer of a small v
RECURSIVE ToNat(_)
ToNat(v) == IF v = <<>> THEN 0 ELSE v[1] + 2 * ToNat(Tail(v))

\* v.bit_length()
BitLen(v) == Len(v)

\* v << n
Shl(v, n) == IF v = <<>> THEN <<>> ELSE Zeros(n) \o v

\* v >> n
Shr(v, n) == IF n >= Len(v) THEN <<>> ELSE SubSeq(v, n + 1, Len(v))

\* v & ((1 << n) - 1)
LowBits(v, n) == Norm(SubSeq(v, 1, Min(n, Len(v))))

\* a | b
BitOr(a, b) ==
    [i \in 1..Max(Len(a), Len(b)) |->
        IF (i <= Len(a) /\ a[i] = 1) \/ (i <= Len(b) /\ b[i] = 1) THEN 1 ELSE 0]

\* a < b
Lt(a, b) ==
    \/ Len(a) < Len(b)
    \/ /\ Len(a) = Len(b)
       /\ \E i \in 1..Len(a) :
            /\ a[i] < b[i]
            /\ \A j \in (i + 1)..Len(a) : a[j] = b[j]

\* a <= b
Leq(a, b) == a = b \/ Lt(a, b)

\* a + 1
RECURSIVE Succ(_)
Succ(a) ==
    IF a = <<>> THEN <<1>>
    ELSE IF a[1] = 0 THEN <<1>> \o Tail(a)
    ELSE <<0>> \o Succ(Tail(a))

\* the integers lo, lo+1, ..., hi-1: the values of randbelow(hi - lo) + lo
RECURSIVE Between(_, _)
Between(lo, hi) == IF Lt(lo, hi) THEN {lo} \cup Between(Succ(lo), hi) ELSE {}

(***************************************************************************)
(* bytes                                                                   *)
(***************************************************************************)
\* b[:n], for n <= len(b)
LeadingBytes(b, n) == [len |-> n, val |-> Shr(b.val, 8 * (b.len - n))]

\* b''
EmptyBytes == [len |-> 0, val |-> <<>>]

\* int.from_bytes(b, byteorder='big')
from_bytes(b) == b.val

\* v.to_bytes(n, byteorder='big') raises OverflowError when v needs more bytes
to_bytes_fits(v, n) == BitLen(v) <= 8 * n
to_bytes(v, n) == [len |-> n, val |-> v]

\* b + a on bytes: the operands of a + b swapped
BytesConcatSwapped(a, b) ==
    [len |-> a.len + b.len, val |-> BitOr(Shl(b.val, 8 * a.len), a.val)]

\* a + b on bytes
BytesConcat(a, b) ==
    [len |-> a.len + b.len, val |-> BitOr(Shl(a.val, 8 * b.len), b.val)]

(***************************************************************************)
(* VaultTokenizer                                                          *)
(***************************************************************************)
SEP_STR == <<60, 83, 69, 80, 62>>
PAD_STR == <<60, 80, 65, 68, 62>>
UNK_STR == <<60, 85, 78, 75, 62>>

FirstChar == 32
LastChar == 126

special_tokens == <<SEP_STR, PAD_STR, UNK_STR>>

\* self.vocab = self.special_tokens + self.chars
vocab == special_tokens \o [i \in 1..(LastChar - FirstChar + 1) |-> <<FirstChar + i - 1>>]
vocab_size == Len(vocab)

\* token ids are the 0-based positions in vocab
SEP_ID == 0
PAD_ID == 1
UNK_ID == 2

\* char_to_idx.get(char, char_to_idx['<UNK>']); char is a str
char_to_id(char) ==
    IF \E i \in 1..vocab_size : vocab[i] = char
    THEN (CHOOSE i \in 1..vocab_size : vocab[i] = char) - 1
    ELSE UNK_ID

\* idx_to_char.get(idx, '<UNK>')
id_to_char(idx) == IF idx \in 0..(vocab_size - 1) THEN vocab[idx + 1] ELSE UNK_STR

\* [self.char_to_id(char) for char in text]
encode(text) == [i \in 1..Len(text) |-> char_to_id(<<text[i]>>)]

\* ''.join([self.id_to_char(idx) for idx in token_ids])
RECURSIVE decode(_)
decode(token_ids) ==
    IF token_ids = <<>> THEN <<>>
    ELSE id_to_char(Head(token_ids)) \o decode(Tail(token_ids))

\* sep.join(parts)
RECURSIVE Join(_, _)
Join(sep, parts) ==
    IF parts = <<>> THEN <<>>
    ELSE IF Len(parts) = 1 THEN parts[1]
    ELSE parts[1] \o sep \o Join(sep, Tail(parts))

StartsWith(s, p) == Len(s) >= Len(p) /\ SubSeq(s, 1, Len(p)) = p

\* s.split(sep): the pieces between the occurrences of sep, scanned left to right
RECURSIVE SplitFrom(_, _, _)
SplitFrom(s, sep, cur) ==
    IF s = <<>> THEN <<cur>>
    ELSE IF StartsWith(s, sep)
         THEN <<cur>> \o SplitFrom(SubSeq(s, Len(sep) + 1, Len(s)), sep, <<>>)
         ELSE SplitFrom(Tail(s), sep, Append(cur, Head(s)))
Split(s, sep) == SplitFrom(s, sep, <<>>)

\* VaultTokenizer.encode_vault
tok_encode_vault(passwords) == encode(SEP_STR \o Join(SEP_STR, passwords) \o SEP_STR)

\* VaultTokenizer.decode_vault
tok_decode_vault(token_ids) ==
    LET vault_str == decode(token_ids)
        parts == Split(vault_str, SEP_STR)
        inner == SubSeq(parts, 2, Len(parts) - 1)
    IN SelectSeq(inner, LAMBDA pwd : pwd # <<>>)

(***************************************************************************)
(* VaultTransformer, seen through predict_next_char: the model is a pure   *)
(* function from the context string to a probability vector.  The models   *)
(* here are test doubles; a vector is named by its row in DistTable.       *)
(***************************************************************************)
\* 1.0 as a numerator
One == 2 ^ ProbBits
Eighth == 2 ^ (ProbBits - 3)

ID_a == char_to_id(<<97>>)
ID_b == char_to_id(<<98>>)

TokenIds == 0..(vocab_size - 1)

\* SEP 1/4, 'a' 1/2, 'b' 1/4
DistPlain ==
    [i \in TokenIds |->
        IF i = SEP_ID THEN 2 * Eighth
        ELSE IF i = ID_a THEN 4 * Eighth
        ELSE IF i = ID_b THEN 2 * Eighth
        ELSE 0]

\* SEP 1/8, PAD 1/8, UNK 1/8, 'a' 3/8, 'b' 1/4
DistReserved ==
    [i \in TokenIds |->
        IF i \in {SEP_ID, PAD_ID, UNK_ID} THEN Eighth
        ELSE IF i = ID_a THEN 3 * Eighth
        ELSE IF i = ID_b THEN 2 * Eighth
        ELSE 0]

\* SEP 1/2, 'a' 1/8, 'b' 3/8
DistAfterChar ==
    [i \in TokenIds |->
        IF i = SEP_ID THEN 4 * Eighth
        ELSE IF i = ID_a THEN Eighth
        ELSE IF i = ID_b THEN 3 * Eighth
        ELSE 0]

\* SEP 1/4, 'a' 1/2, 'b' 1/8: a row whose float32 sum stops short of 1.0, as the
\* sum of a softmax row does (0.99999964 for the uniform row over the 98 symbols)
DistShort ==
    [i \in TokenIds |->
        IF i = SEP_ID THEN 2 * Eighth
        ELSE IF i = ID_a THEN 4 * Eighth
        ELSE IF i = ID_b THEN Eighth
        ELSE 0]

DistTable == <<DistPlain, DistReserved, DistAfterChar, DistShort>>

\* np.cumsum(probs_np), for every row
CumTable ==
    [d \in DOMAIN DistTable |->
        LET c[i \in TokenIds] ==
                IF i = 0 THEN DistTable[d][0] ELSE c[i - 1] + DistTable[d][i]
        IN [i \in TokenIds |-> c[i]]]

EndsWith(s, p) == Len(s) >= Len(p) /\ SubSeq(s, Len(s) - Len(p) + 1, Len(s)) = p

\* the test doubles: 1 and 2 ignore the context, 3 looks at its last symbol
Models == 1..3

\* VaultTransformer.predict_next_char(context, tokenizer) of model m
predict_next_char(m, context) ==
    IF m = 1 THEN 1
    ELSE IF m = 2 THEN 2
    ELSE IF EndsWith(context, SEP_STR) THEN 1 ELSE 3

(***************************************************************************)
(* HoneyEncoder                                                            *)
(***************************************************************************)
\* int(-np.log2(1e-10)) = int(33.2...)
EpsilonNegLog2 == 33
\* the cap on a chunk, and max_bits of the decoder
MaxChunkBits == 32

\* HoneyEncoder._get_char_probabilities
get_char_probabilities(m, context) == predict_next_char(m, context)

\* HoneyEncoder._get_cumulative_interval: numerators of (interval_start, interval_end)
get_cumulative_interval(char_id, probs) ==
    LET cumsum == CumTable[probs]
        interval_start == IF char_id = 0 THEN 0 ELSE cumsum[char_id - 1]
        interval_end == cumsum[char_id]
    IN <<interval_start, interval_end>>

\* int(-np.log2(size)) for the float size = w / 2^ProbBits, 0 < w: the largest e
\* with w * 2^e <= 2^ProbBits
NegLog2Int(w) == CHOOSE e \in 0..ProbBits : w * 2 ^ e <= One /\ w * 2 ^ (e + 1) > One

\* int(x * seed_space) for the float x = c / 2^ProbBits and seed_space = 2^bits
ScaleInt(c, bits) == Shr(Shl(FromNat(c), bits), ProbBits)

\* bits_needed of _interval_to_seed
bits_needed_of(interval_start, interval_end) ==
    LET interval_size == interval_end - interval_start
        neglog == IF interval_size <= 0 THEN EpsilonNegLog2 ELSE NegLog2Int(interval_size)
    IN Min(Max(1, neglog + 1), MaxChunkBits)

\* HoneyEncoder._interval_to_seed: the pairs <<seed_chunk, bits_needed>> it can return,
\* one for each value of secrets.randbelow
interval_to_seed(interval_start, interval_end) ==
    LET bits_needed == bits_needed_of(interval_start, interval_end)
        seed_start == ScaleInt(interval_start, bits_needed)
        seed_end0 == ScaleInt(interval_end, bits_needed)
        seed_end == IF Leq(seed_end0, seed_start) THEN Succ(seed_start) ELSE seed_end0
    IN {<<seed_chunk, bits_needed>> : seed_chunk \in Between(seed_start, seed_end)}

\* int(x * 2^ProbBits) for the float x = v / 2^bits, as a machine integer
GridFloor(v, bits) == ToNat(Shr(Shl(v, ProbBits), bits))

\* np.searchsorted(cumsum, prob_value, side='right') with prob_value =
\* extracted_bits / 2^bits: the number of entries cumsum[i] <= prob_value, found by
\* bisection.  The entries are multiples of 2^-ProbBits, so an entry is <= prob_value
\* exactly when its numerator is <= q = int(prob_value * 2^ProbBits).
RECURSIVE Bisect(_, _, _, _)
Bisect(cumsum, q, lo, hi) ==
    IF lo >= hi THEN lo
    ELSE LET mid == (lo + hi) \div 2
         IN IF cumsum[mid] <= q
            THEN Bisect(cumsum, q, mid + 1, hi)
            ELSE Bisect(cumsum, q, lo, mid)
searchsorted_right(cumsum, extracted_bits, bits) ==
    Bisect(cumsum, GridFloor(extracted_bits, bits), 0, vocab_size)

\* one pass of the loop "for bits in range(1, max_bits + 1)" of _seed_to_character,
\* from width bits on, then the fallback
RECURSIVE seed_to_character_from(_, _, _)
seed_to_character_from(seed_value, probs, bits) ==
    LET cumsum == CumTable[probs]
    IN IF bits > MaxChunkBits
       THEN LET extracted_bits == LowBits(seed_value, MaxChunkBits)
                char_id == searchsorted_right(cumsum, extracted_bits, MaxChunkBits)
            IN <<Min(char_id, vocab_size - 1), MaxChunkBits>>
       ELSE LET extracted_bits == LowBits(seed_value, bits)
                char_id == searchsorted_right(cumsum, extracted_bits, bits)
                iv == get_cumulative_interval(char_id, probs)
            IN IF /\ char_id < vocab_size
                  /\ Leq(ScaleInt(iv[1], bits), extracted_bits)
                  /\ Lt(extracted_bits, ScaleInt(iv[2], bits))
               THEN <<char_id, bits>>
               ELSE seed_to_character_from(seed_value, probs, bits + 1)

\* _seed_to_character with the fallback returning char_id as searchsorted gave it,
\* without min(char_id, len(probs_np) - 1)
seed_to_character_unclamped(seed_value, probs) ==
    LET r == seed_to_character_from(seed_value, probs, 1)
        char_id == searchsorted_right(CumTable[probs],
                                      LowBits(seed_value, MaxChunkBits), MaxChunkBits)
    IN IF r[2] = MaxChunkBits /\ char_id = vocab_size
       THEN <<char_id, MaxChunkBits>>
       ELSE r

\* HoneyEncoder._seed_to_character: <<char_id, bits_consumed>>
seed_to_character(seed_value, probs) == seed_to_character_from(seed_value, probs, 1)

\* the safety check of decode_seed: len(current_password) > 25
MaxPasswordLength == 25
\* the defaults of decode_seed
DefaultMaxPasswords == 50
DefaultMaxTotalLength == 1000

\* the body of the while loop of decode_seed after _seed_to_character returned
\* char in bits_consumed bits; bits_read adds up the bits_consumed so far
decode_char(st, char, bits_consumed) ==
    LET isSep == char = SEP_STR
        \* after the if char == '<SEP>' / else
        passwords1 == IF isSep /\ st.current_password # <<>>
                      THEN Append(st.passwords, st.current_password)
                      ELSE st.passwords
        current1 == IF isSep THEN <<>> ELSE st.current_password \o char
        \* the safety check
        force == Len(current1) > MaxPasswordLength
    IN [seed_value |-> Shr(st.seed_value, bits_consumed),
        passwords |-> IF force THEN Append(passwords1, current1) ELSE passwords1,
        current_password |-> IF force THEN <<>> ELSE current1,
        context |-> IF force THEN st.context \o char \o SEP_STR ELSE st.context \o char,
        chars_decoded |-> st.chars_decoded + 1,
        bits_read |-> st.bits_read + bits_consumed]

decode_symbol(st, r) == decode_char(st, id_to_char(r[1]), r[2])

\* one iteration of the while loop of decode_seed
decode_step(m, st) ==
    decode_symbol(st, seed_to_character(st.seed_value,
                                        get_char_probabilities(m, st.context)))

\* the while loop of decode_seed, run for at most n more iterations.  An iteration
\* adds one to chars_decoded, so the loop makes at most max_total_length of them;
\* the n iterations are split in two halves to keep the evaluation shallow.
RECURSIVE decode_loop(_, _, _, _, _)
decode_loop(m, st, max_passwords, max_total_length, n) ==
    IF \/ n = 0
       \/ ~(Len(st.passwords) < max_passwords /\ st.chars_decoded < max_total_length)
    THEN st
    ELSE IF n = 1 THEN decode_step(m, st)
    ELSE decode_loop(m,
             decode_loop(m, st, max_passwords, max_total_length, n \div 2),
             max_passwords, max_total_length, n - n \div 2)

\* "Add remaining password if any"
decode_remaining(st) ==
    IF st.current_password # <<>>
    THEN Append(st.passwords, st.current_password)
    ELSE st.passwords

\* decode_seed up to the end of its while loop: the locals at that point
decode_run(m, seed, max_passwords, max_total_length) ==
    decode_loop(m,
        [seed_value |-> from_bytes(seed), passwords |-> <<>>,
         current_password |-> <<>>, context |-> SEP_STR,
         chars_decoded |-> 0, bits_read |-> 0],
        max_passwords, max_total_length, max_total_length)

\* HoneyEncoder.decode_seed(seed, max_passwords, max_total_length)
decode_seed(m, seed, max_passwords, max_total_length) ==
    decode_remaining(decode_run(m, seed, max_passwords, max_total_length))

\* decode_seed with the oracle left in training mode: dropout makes each call
\* see another distribution
decode_seed_dropout(m, seed, max_passwords, max_total_length) ==
    {decode_seed(m2, seed, max_passwords, max_total_length) : m2 \in Models}

\* the lists a call decode_seed(seed, max_passwords, max_total_length) can return:
\* the call draws nothing, reads no attribute another call wrote, and
\* predict_next_char runs the oracle in eval mode
decode_seed_runs(m, seed, max_passwords, max_total_length) ==
    {decode_seed(m, seed, max_passwords, max_total_length)}

\* "seed_value = (seed_value << chunk_bits) | seed_chunk; bits_used += chunk_bits",
\* for every chunk _interval_to_seed can return for char_id under probs
encode_symbol(st, probs, char_id) ==
    LET iv == get_cumulative_interval(char_id, probs)
    IN {[seed_value |-> BitOr(Shl(st.seed_value, r[2]), r[1]),
         bits_used |-> st.bits_used + r[2],
         context |-> st.context] : r \in interval_to_seed(iv[1], iv[2])}

\* the loop "for char in password" of encode_vault and encode_incremental, over
\* every state the draws so far can have led to
RECURSIVE encode_chars(_, _, _)
encode_chars(m, states, password) ==
    IF password = <<>> THEN states
    ELSE LET char == <<Head(password)>>
             next == UNION {
                        {[s EXCEPT !.context = st.context \o char] :
                            s \in encode_symbol(st,
                                     get_char_probabilities(m, st.context),
                                     char_to_id(char))} : st \in states}
         IN encode_chars(m, next, Tail(password))

\* "Encode separator": context += '<SEP>', probabilities from context[:-5]
encode_separator(m, states) ==
    UNION {LET context == st.context \o SEP_STR
               before == SubSeq(context, 1, Len(context) - 5)
           IN {[s EXCEPT !.context = context] :
                  s \in encode_symbol(st, get_char_probabilities(m, before),
                                      char_to_id(SEP_STR))} : st \in states}

RECURSIVE encode_passwords(_, _, _)
encode_passwords(m, states, passwords) ==
    IF passwords = <<>> THEN states
    ELSE encode_passwords(m,
             encode_separator(m, encode_chars(m, states, Head(passwords))),
             Tail(passwords))

\* "Convert to bytes": the value returned, or the OverflowError of to_bytes
seed_bytes_of(st) ==
    LET num_bytes == (st.bits_used + 7) \div 8
    IN IF to_bytes_fits(st.seed_value, num_bytes)
       THEN [raised |-> "none", value |-> to_bytes(st.seed_value, num_bytes)]
       ELSE [raised |-> "OverflowError", value |-> EmptyBytes]

\* HoneyEncoder.encode_vault(passwords): every outcome the random draws allow
encode_vault(m, passwords) ==
    {seed_bytes_of(st) :
        st \in encode_passwords(m,
                   {[seed_value |-> <<>>, bits_used |-> 0, context |-> SEP_STR]},
                   passwords)}

\* encode_incremental, "Encode only the new password": seed_value and bits_used
\* after the separator, over every outcome of the draws
incremental_chunks(m, new_password, context) ==
    encode_separator(m,
        encode_chars(m,
            {[seed_value |-> <<>>, bits_used |-> 0,
              context |-> SEP_STR \o Join(SEP_STR, context) \o SEP_STR]},
            new_password))

\* HoneyEncoder.encode_incremental(old_seed, new_password, context)
encode_incremental(m, old_seed, new_password, context) ==
    {LET new == seed_bytes_of(st)
     IN IF new.raised = "none"
        THEN [raised |-> "none", value |-> BytesConcat(old_seed, new.value)]
        ELSE new : st \in incremental_chunks(m, new_password, context)}

(***************************************************************************)
(* VaultTransformer.generate_password                                      *)
(***************************************************************************)
\* max_length of generate_password
GenerateMaxLength == 25

\* the sampler draws SEP at the latest on draw MaxDraws + 1
MaxDraws == 1

\* the strings generate_password can return from here on: torch.multinomial
\* returns any token id of positive probability
RECURSIVE generate_from(_, _, _, _)
generate_from(m, generated, current_context, draws) ==
    IF draws = GenerateMaxLength THEN {generated}
    ELSE LET probs == DistTable[predict_next_char(m, current_context)]
             sampled == {i \in TokenIds :
                            probs[i] > 0 /\ (draws < MaxDraws \/ i = SEP_ID)}
         IN UNION {LET next_char == decode(<<next_token_id>>)
                   IN IF next_char = SEP_STR THEN {generated}
                      ELSE generate_from(m, generated \o next_char,
                                         current_context \o next_char, draws + 1) :
                   next_token_id \in sampled}

generate_password(m, context) == generate_from(m, <<>>, context, 0)

(***************************************************************************)
(* HoneyVault                                                              *)
(***************************************************************************)
UNLIMITED_LOGIN_SITES == {"gaming-site.com", "forum-example.com"}

\* str.lower() on the website names used here
Lower(website) == IF website = "Gaming-Site.com" THEN "gaming-site.com" ELSE website

\* _should_use_honey_encryption without the .lower()
should_use_honey_encryption_cased(website) == website \notin UNLIMITED_LOGIN_SITES

should_use_honey_encryption(website) == Lower(website) \notin UNLIMITED_LOGIN_SITES

\* PBKDF2-HMAC-SHA256: the key is determined by, and determines, (master, salt)
derive_key(master_password, salt) == <<master_password, salt>>

\* AESGCM(key).encrypt(nonce, plaintext, None): the ciphertext opens under the
\* same key and nonce only, and only while none of its bytes was changed
AesGcmEncrypt(key, nonce, plaintext) ==
    [key |-> key, nonce |-> nonce, plaintext |-> plaintext, flipped |-> FALSE]

\* the ciphertext with one byte flipped
FlipByte(ciphertext) == [ciphertext EXCEPT !.flipped = TRUE]

\* AESGCM(key).decrypt(nonce, ciphertext, None)
AesGcmDecrypt(key, nonce, ciphertext) ==
    IF ciphertext.key = key /\ ciphertext.nonce = nonce /\ ~ciphertext.flipped
    THEN [raised |-> "none", value |-> ciphertext.plaintext]
    ELSE [raised |-> "InvalidTag", value |-> ciphertext.plaintext]

\* json.dumps(obj).encode('utf-8'); a dict is told from a list by its type
json_dumps(obj) == [parses |-> TRUE, value |-> obj]
JsonDict(items) == [type |-> "dict", items |-> items]
JsonList(items) == [type |-> "list", items |-> items]

\* json.loads(text.decode('utf-8'))
json_loads(text) ==
    IF text.parses THEN [raised |-> "none", value |-> text.value]
    ELSE [raised |-> "JSONDecodeError", value |-> text.value]

\* seed_length + seed + vault_json: the 4-byte length of the seed in front lets
\* decrypt_vault cut the payload back into the seed and the JSON text
Payload(seed_bytes, vault_json) == [seed |-> seed_bytes, vault_json |-> vault_json]

\* length of _generate_secure_random_password
SecureRandomLength == 32

\* _generate_secure_random_password, drawing one of two of its strings
generate_secure_random_password ==
    {[i \in 1..SecureRandomLength |-> c] : c \in {88, 55}}

\* the loop of encrypt_vault over the entries: the honey-encrypted passwords,
\* the entries kept in plaintext and the caller's list as the loop leaves it
RECURSIVE split_entries(_)
split_entries(passwords) ==
    IF passwords = <<>>
    THEN {[honey_encrypted |-> <<>>, plaintext_random |-> <<>>, passwords |-> <<>>]}
    ELSE LET entry == passwords[Len(passwords)]
             front == split_entries(SubSeq(passwords, 1, Len(passwords) - 1))
         IN IF should_use_honey_encryption(entry.website)
            THEN {[honey_encrypted |-> Append(f.honey_encrypted, entry.password),
                   plaintext_random |-> f.plaintext_random,
                   passwords |-> Append(f.passwords, entry)] : f \in front}
            ELSE UNION {{LET changed == [entry EXCEPT !.password = random_pwd]
                         IN [honey_encrypted |-> f.honey_encrypted,
                             plaintext_random |-> Append(f.plaintext_random, changed),
                             passwords |-> Append(f.passwords, changed)] :
                         random_pwd \in generate_secure_random_password} : f \in front}

\* the honey_accounts list of vault_data
account_stubs(honey_accounts) ==
    [i \in 1..Len(honey_accounts) |->
        [website |-> honey_accounts[i].website,
         username |-> honey_accounts[i].username,
         password |-> honey_accounts[i].password,
         created_at |-> honey_accounts[i].created_at]]

\* HoneyVault.encrypt_vault with the salt, the nonce and the clock reading the
\* call draws: the outcomes over the draws of the encoder and of the random
\* passwords.  passwords is the caller's list as the call leaves it.
encrypt_vault(m, passwords, master_password, honey_accounts, salt, nonce, now) ==
    UNION {LET vault_data ==
                   JsonDict([honey_encrypted_passwords |-> sp.honey_encrypted,
                             plaintext_entries |-> sp.plaintext_random,
                             honey_accounts |-> account_stubs(honey_accounts)])
               seeds == IF sp.honey_encrypted # <<>>
                        THEN encode_vault(m, sp.honey_encrypted)
                        ELSE {[raised |-> "none", value |-> EmptyBytes]}
           IN {LET plaintext == Payload(e.value, json_dumps(vault_data))
                   key == derive_key(master_password, salt)
               IN [raised |-> e.raised,
                   ciphertext |-> AesGcmEncrypt(key, nonce, plaintext),
                   metadata |-> [version |-> "1.0",
                                 salt |-> salt,
                                 nonce |-> nonce,
                                 created_at |-> now,
                                 updated_at |-> now,
                                 password_count |-> Len(passwords),
                                 has_honey_accounts |-> Len(honey_accounts) > 0],
                   passwords |-> sp.passwords] : e \in seeds} :
           sp \in split_entries(passwords)}

\* _generate_random_decoy_vault with the loop one entry short
generate_random_decoy_vault_short(m, password_count) ==
    {[i \in 1..(password_count - 1) |->
         [website |-> "site" \o ToString(i) \o ".com",
          username |-> "user" \o ToString(i),
          password |-> pwds[i],
          encrypted_with_honey |-> TRUE]] :
     pwds \in [1..(password_count - 1) -> generate_password(m, SEP_STR)]}

\* HoneyVault._generate_random_decoy_vault
generate_random_decoy_vault(m, password_count) ==
    {[i \in 1..password_count |->
         [website |-> "site" \o ToString(i) \o ".com",
          username |-> "user" \o ToString(i),
          password |-> pwds[i],
          encrypted_with_honey |-> TRUE]] :
     pwds \in [1..password_count -> generate_password(m, SEP_STR)]}

\* the entries decrypt_vault builds from the decoded passwords
honey_entries(honey_passwords) ==
    [i \in 1..Len(honey_passwords) |->
        [website |-> "website" \o ToString(i) \o ".com",
         username |-> "user" \o ToString(i),
         password |-> honey_passwords[i],
         encrypted_with_honey |-> TRUE]]

\* {**entry, 'encrypted_with_honey': False} for every plaintext entry
plaintext_entries_of(entries) ==
    [i \in 1..Len(entries) |-> [encrypted_with_honey |-> FALSE] @@ entries[i]]

\* the entries decrypt_vault builds from the honey-account stubs
honey_account_entries(accounts) ==
    [i \in 1..Len(accounts) |->
        [website |-> accounts[i].website,
         username |-> accounts[i].username,
         password |-> accounts[i].password,
         is_honey_account |-> TRUE]]

\* HoneyVault.decrypt_vault: the outcomes over the draws of the decoy sampler;
\* branch names the return statement taken
decrypt_vault(m, ciphertext, master_password, metadata) ==
    LET key == derive_key(master_password, metadata.salt)
        opened == AesGcmDecrypt(key, metadata.nonce, ciphertext)
        decoys(branch) ==
            {[raised |-> "none", value |-> v, branch |-> branch] :
             v \in generate_random_decoy_vault(m, metadata.password_count)}
    IN IF opened.raised # "none" THEN decoys("decrypt_failed")
       ELSE LET plaintext == opened.value
                seed_bytes == plaintext.seed
                parsed == json_loads(plaintext.vault_json)
            IN IF parsed.raised # "none" THEN decoys("invalid_json")
               ELSE LET vault_data == parsed.value
                        honey_passwords ==
                            IF seed_bytes.len > 0
                            THEN decode_seed(m, seed_bytes, metadata.password_count,
                                             DefaultMaxTotalLength)
                            ELSE <<>>
                    IN IF vault_data.type # "dict"
                       THEN {[raised |-> "AttributeError", value |-> <<>>,
                              branch |-> "reconstruct"]}
                       ELSE {[raised |-> "none",
                              value |-> honey_entries(honey_passwords)
                                        \o plaintext_entries_of(vault_data.items.plaintext_entries)
                                        \o honey_account_entries(vault_data.items.honey_accounts),
                              branch |-> "reconstruct"]}

\* HoneyVault.add_password with the salt, the nonce and the clock reading the
\* re-encryption draws
add_password(m, old_ciphertext, old_metadata, master_password, new_entry, salt, nonce, now) ==
    UNION {IF d.raised # "none"
           THEN {[raised |-> d.raised, ciphertext |-> old_ciphertext,
                  metadata |-> old_metadata, passwords |-> <<>>]}
           ELSE encrypt_vault(m, Append(d.value, new_entry), master_password,
                              <<>>, salt, nonce, now) :
           d \in decrypt_vault(m, old_ciphertext, master_password, old_metadata)}

(***************************************************************************)
(* State.  The classes keep no state between calls beyond the model and    *)
(* the tokenizer; the state is what a caller holds between calls.          *)
(***************************************************************************)
VARIABLES
    model,          \* HoneyEncoder.model: the test double in use
    op,             \* the call that returned last
    vault,          \* the passwords the caller encoded
    new_password,   \* the password of the last encode_incremental
    seed,           \* the seed bytes the caller holds
    raised,         \* the exception the last call raised, or "none"
    max_passwords,  \* max_passwords of the last decode_seed
    max_total_length, \* max_total_length of the last decode_seed
    decoded,        \* the list the last decode_seed returned
    old_seed,       \* the old_seed handed to the last encode_incremental
    decoded_prev,   \* the list the decode_seed before it returned, on the same arguments
    tok_op,         \* the VaultTokenizer call that returned last
    tok_passwords,  \* the list handed to VaultTokenizer.encode_vault
    tok_ids,        \* the token ids it returned
    tok_decoded,    \* the list VaultTokenizer.decode_vault returned
    hv_op,          \* the HoneyVault call that returned last
    hv_passwords,   \* the caller's entry list, as encrypt_vault left it
    hv_new_entry,   \* the entries added with add_password
    hv_ciphertext,  \* the stored ciphertext
    hv_metadata,    \* the stored metadata
    hv_clock,       \* the number of encryptions so far: clock, salt and nonce source
    hv_call,        \* the arguments of the last decrypt_vault or add_password
    hv_result,      \* what the last call returned or raised
    hv_prev,        \* what the decrypt_vault before the last one returned, if it had the same arguments
    sym_op,         \* the private method of HoneyEncoder that returned last
    sym_probs,      \* its argument probs: a row of DistTable
    sym_char,       \* the char_id handed to _get_cumulative_interval
    sym_chunk,      \* (seed_chunk, bits_needed) as _interval_to_seed returned them
    sym_seed,       \* the seed_value handed to _seed_to_character
    sym_result,     \* (char_id, bits_consumed) as _seed_to_character returned them
    mon_running,    \* HoneyAccountMonitor.running
    mon_transport,  \* MonitorConfig names a recipient or a webhook: _send_alert awaits it
    mon_accounts,   \* honey_accounts handed to start_monitoring
    mon_pc,         \* where each task of monitoring_tasks is suspended
    mon_wake,       \* the clock reading at which the asyncio.sleep of a task ends
    mon_last_alerts, \* HoneyAccountMonitor.last_alerts
    mon_now,        \* datetime.now(), in minutes
    mon_sent        \* the BreachAlerts handed to _send_alert, in order

codecVars == <<model, op, vault, new_password, seed, raised, max_passwords,
               max_total_length, decoded, decoded_prev, old_seed>>
tokVars == <<tok_op, tok_passwords, tok_ids, tok_decoded>>
hvVars == <<hv_op, hv_passwords, hv_new_entry, hv_ciphertext, hv_metadata,
            hv_clock, hv_call, hv_result, hv_prev>>

symVars == <<sym_op, sym_probs, sym_char, sym_chunk, sym_seed, sym_result>>

monVars == <<mon_running, mon_transport, mon_accounts, mon_pc, mon_wake,
             mon_last_alerts, mon_now, mon_sent>>

vars == <<codecVars, tokVars, hvVars, symVars, monVars>>

\* characters of the passwords handed to the encoder: 'a', 'b' and U+0001
CHAR_a == 97
CHAR_b == 98
CHAR_ctrl == 1

\* the strings of 1..n characters
Strings(chars, n) == UNION {[1..k -> chars] : k \in 1..n}

\* the lists of non-empty passwords over chars with at most n characters in all
RECURSIVE VaultsUpTo(_, _)
VaultsUpTo(chars, n) ==
    {<<>>} \cup UNION {{<<p>> \o v : v \in VaultsUpTo(chars, n - Len(p))} :
                          p \in Strings(chars, n)}

RECURSIVE TotalChars(_)
TotalChars(P) == IF P = <<>> THEN 0 ELSE Len(Head(P)) + TotalChars(Tail(P))

\* ["a\u0001b"], the vault with a character outside the alphabet
ForbiddenVault == << <<CHAR_a, CHAR_ctrl, CHAR_b>> >>

InputVaults == VaultsUpTo({CHAR_a, CHAR_b}, MaxChars) \cup {ForbiddenVault}

Printable(s) == \A i \in 1..Len(s) : s[i] \in FirstChar..LastChar
AllPrintable(P) == \A i \in 1..Len(P) : Printable(P[i])

\* b'\x55' * n, the bits 01 repeated, with n the bytes that hold
\* MaxPasswordLength + 1 chunks of two bits
LongSeed ==
    LET n == (2 * (MaxPasswordLength + 1) + 7) \div 8
    IN [len |-> n, val |-> [i \in 1..(8 * n - 1) |-> i % 2]]

\* the byte strings that hold a value below 2^MaxSeedBits, and a long one
ArbitrarySeeds ==
    {to_bytes(v, (MaxSeedBits + 7) \div 8) : v \in {Norm(b) : b \in [1..MaxSeedBits -> {0, 1}]}}
        \cup {LongSeed}

CodecInit ==
    /\ model \in Models
    /\ op = "idle"
    /\ vault = <<>>
    /\ new_password = <<>>
    /\ seed = EmptyBytes
    /\ raised = "none"
    /\ max_passwords = 0
    /\ max_total_length = 0
    /\ decoded = <<>>
    /\ decoded_prev = <<>>
    /\ old_seed = EmptyBytes

\* seed = encoder.encode_vault(P)
EncodeVault ==
    /\ op = "idle"
    /\ \E P \in InputVaults : \E r \in encode_vault(model, P) :
          /\ vault' = P
          /\ seed' = r.value
          /\ raised' = r.raised
    /\ op' = "encode_vault"
    /\ UNCHANGED <<model, new_password, max_passwords, max_total_length, decoded,
                   decoded_prev, old_seed>>
    /\ UNCHANGED <<tokVars, hvVars, symVars>>
    /\ UNCHANGED monVars

\* seed = encoder.encode_incremental(seed, p, P), after encode_vault(P)
EncodeIncremental ==
    /\ op = "encode_vault"
    /\ raised = "none"
    /\ TotalChars(vault) < MaxChars
    /\ \E p \in Strings({CHAR_a, CHAR_b}, MaxChars - TotalChars(vault)) : \E r \in encode_incremental(model, seed, p, vault) :
          /\ new_password' = p
          /\ seed' = r.value
          /\ old_seed' = seed
          /\ raised' = r.raised
    /\ op' = "encode_incremental"
    /\ UNCHANGED <<model, vault, max_passwords, max_total_length, decoded, decoded_prev>>
    /\ UNCHANGED <<tokVars, hvVars, symVars>>
    /\ UNCHANGED monVars

\* decoded = encoder.decode_seed(seed, max_passwords=k) on the seed just encoded,
\* with k the number of passwords encoded
DecodeEncoded ==
    /\ op \in {"encode_vault", "encode_incremental"}
    /\ raised = "none"
    /\ LET k == IF op = "encode_vault" THEN Len(vault) ELSE Len(vault) + 1
       IN /\ max_passwords' = k
          /\ max_total_length' = DefaultMaxTotalLength
          /\ decoded' = decode_seed(model, seed, k, DefaultMaxTotalLength)
    /\ op' = IF op = "encode_vault" THEN "decode_encoded" ELSE "decode_incremental"
    /\ UNCHANGED <<model, vault, new_password, seed, raised, decoded_prev, old_seed>>
    /\ UNCHANGED <<tokVars, hvVars, symVars>>
    /\ UNCHANGED monVars

\* decoded = encoder.decode_seed(B, max_passwords=k, max_total_length=n) on any bytes B
DecodeArbitrary ==
    /\ op = "idle"
    /\ \E B \in ArbitrarySeeds, k \in 0..MaxK,
          n \in {SmallTotalLength, DefaultMaxTotalLength} :
          /\ seed' = B
          /\ max_passwords' = k
          /\ max_total_length' = n
          /\ decoded' = decode_seed(model, B, k, n)
    /\ op' = "decode_arbitrary"
    /\ UNCHANGED <<model, vault, new_password, raised, decoded_prev, old_seed>>
    /\ UNCHANGED <<tokVars, hvVars, symVars>>
    /\ UNCHANGED monVars

\* decoded = encoder.decode_seed(B, max_passwords=k, max_total_length=n) once more,
\* with the arguments of the call before
DecodeAgain ==
    /\ op = "decode_arbitrary"
    /\ decoded' \in decode_seed_runs(model, seed, max_passwords, max_total_length)
    /\ decoded_prev' = decoded
    /\ op' = "decode_again"
    /\ UNCHANGED <<model, vault, new_password, seed, raised, max_passwords,
                   max_total_length, old_seed>>
    /\ UNCHANGED <<tokVars, hvVars, symVars>>
    /\ UNCHANGED monVars

(***************************************************************************)
(* One symbol: _get_cumulative_interval, _interval_to_seed and             *)
(* _seed_to_character called as encode_vault and decode_seed call them     *)
(***************************************************************************)
\* the bits above a chunk in a seed are values below 2^MaxHighBits
MaxHighBits == 2

\* the values below 2^n
ValuesBelow(n) == {Norm(b) : b \in [1..n -> {0, 1}]}

\* seed values handed to _seed_to_character: the small ones and 2^32 - 1
SeedValues == ValuesBelow(MaxSeedBits) \cup {[i \in 1..MaxChunkBits |-> 1]}

SymInit ==
    /\ sym_op = "idle"
    /\ sym_probs = 1
    /\ sym_char = 0
    /\ sym_chunk = <<<<>>, 0>>
    /\ sym_seed = <<>>
    /\ sym_result = <<0, 0>>

\* interval_start, interval_end = self._get_cumulative_interval(char_id, probs);
\* seed_chunk, chunk_bits = self._interval_to_seed(interval_start, interval_end)
IntervalToSeed ==
    /\ sym_op = "idle"
    /\ \E probs \in DOMAIN DistTable, char_id \in TokenIds :
          \E chunk \in interval_to_seed(get_cumulative_interval(char_id, probs)[1],
                                        get_cumulative_interval(char_id, probs)[2]) :
             /\ sym_probs' = probs
             /\ sym_char' = char_id
             /\ sym_chunk' = chunk
    /\ sym_op' = "interval_to_seed"
    /\ UNCHANGED <<sym_seed, sym_result, codecVars, tokVars, hvVars>>
    /\ UNCHANGED monVars

\* char_id, bits_consumed = self._seed_to_character(seed_value, probs) on a seed
\* whose low chunk_bits bits are the chunk just written
SeedToCharacter ==
    /\ sym_op = "interval_to_seed"
    /\ \E high \in ValuesBelow(MaxHighBits) :
          /\ sym_seed' = BitOr(Shl(high, sym_chunk[2]), sym_chunk[1])
          /\ sym_result' = seed_to_character(BitOr(Shl(high, sym_chunk[2]), sym_chunk[1]),
                                             sym_probs)
    /\ sym_op' = "seed_to_character"
    /\ UNCHANGED <<sym_probs, sym_char, sym_chunk, codecVars, tokVars, hvVars>>
    /\ UNCHANGED monVars

\* char_id, bits_consumed = self._seed_to_character(seed_value, probs) on any seed
SeedToCharacterAny ==
    /\ sym_op = "idle"
    /\ \E probs \in DOMAIN DistTable, seed_value \in SeedValues :
          /\ sym_probs' = probs
          /\ sym_seed' = seed_value
          /\ sym_result' = seed_to_character(seed_value, probs)
    /\ sym_op' = "seed_to_character_any"
    /\ UNCHANGED <<sym_char, sym_chunk, codecVars, tokVars, hvVars>>
    /\ UNCHANGED monVars

(***************************************************************************)
(* VaultTokenizer calls                                                    *)
(***************************************************************************)
\* the characters of the lists handed to the tokenizer: 'a', '<', '>' and the
\* five characters of the text '<SEP>'
MaxTokLen == 2
MaxTokList == 2
TokStrings == Strings({CHAR_a, 60, 62}, MaxTokLen) \cup {SEP_STR}
TokLists == UNION {[1..k -> TokStrings] : k \in 0..MaxTokList}

TokInit ==
    /\ tok_op = "idle"
    /\ tok_passwords = <<>>
    /\ tok_ids = <<>>
    /\ tok_decoded = <<>>

\* ids = tokenizer.encode_vault(P)
TokEncodeVault ==
    /\ tok_op = "idle"
    /\ \E P \in TokLists :
          /\ tok_passwords' = P
          /\ tok_ids' = tok_encode_vault(P)
    /\ tok_op' = "encode_vault"
    /\ UNCHANGED <<tok_decoded, codecVars, hvVars, symVars>>
    /\ UNCHANGED monVars

\* tokenizer.decode_vault(ids)
TokDecodeVault ==
    /\ tok_op = "encode_vault"
    /\ tok_decoded' = tok_decode_vault(tok_ids)
    /\ tok_op' = "decode_vault"
    /\ UNCHANGED <<tok_passwords, tok_ids, codecVars, hvVars, symVars>>
    /\ UNCHANGED monVars

(***************************************************************************)
(* HoneyVault calls                                                        *)
(***************************************************************************)
RightMaster == "correct horse"
WrongMaster == "wrong"
Masters == {RightMaster, WrongMaster}

EntryA == [website |-> "github.com", username |-> "alice", password |-> <<CHAR_a>>]
EntryB == [website |-> "mail.example", username |-> "bob", password |-> <<CHAR_b>>]
EntryG == [website |-> "Gaming-Site.com", username |-> "carol",
           password |-> <<CHAR_a, CHAR_b>>]
Canary == [website |-> "honey-bank.com", username |-> "canary",
           password |-> <<CHAR_b>>, created_at |-> 0]

EntryLists == {<<>>, <<EntryA>>, <<EntryG>>, <<EntryA, EntryB>>, <<EntryG, EntryA>>}
HoneyAccountLists == {<<>>, <<Canary>>}

NoCiphertext == AesGcmEncrypt(derive_key("", 0), 0, Payload(EmptyBytes, json_dumps(JsonList(<<>>))))
NoMetadata == [version |-> "1.0", salt |-> 0, nonce |-> 0, created_at |-> 0,
               updated_at |-> 0, password_count |-> 0, has_honey_accounts |-> FALSE]
NoCall == [ciphertext |-> NoCiphertext, master_password |-> "", metadata |-> NoMetadata]
NoResult == [raised |-> "none", value |-> <<>>, branch |-> "none"]

HvInit ==
    /\ hv_op = "idle"
    /\ hv_passwords = <<>>
    /\ hv_new_entry = <<>>
    /\ hv_ciphertext = NoCiphertext
    /\ hv_metadata = NoMetadata
    /\ hv_clock = 1
    /\ hv_call = NoCall
    /\ hv_result = NoResult
    /\ hv_prev = NoResult

\* ciphertext, metadata = vault_system.encrypt_vault(entries, master, honey_accounts)
EncryptVault ==
    /\ hv_op = "idle"
    /\ \E P \in EntryLists, H \in HoneyAccountLists :
          \E r \in encrypt_vault(model, P, RightMaster, H, hv_clock, hv_clock, hv_clock) :
             /\ hv_passwords' = r.passwords
             /\ hv_ciphertext' = r.ciphertext
             /\ hv_metadata' = r.metadata
             /\ hv_result' = [raised |-> r.raised, value |-> <<>>, branch |-> "none"]
    /\ hv_clock' = hv_clock + 1
    /\ hv_op' = "encrypt_vault"
    /\ UNCHANGED <<hv_new_entry, hv_call, hv_prev, codecVars, tokVars, symVars>>
    /\ UNCHANGED monVars

\* a payload that is not the JSON of a dict, sealed under the vault's own key
ForgedPayloads ==
    {Payload(EmptyBytes, json_dumps(JsonList(<<>>))),
     Payload(EmptyBytes, [parses |-> FALSE, value |-> JsonList(<<>>)])}

\* the ciphertexts a caller can hand to decrypt_vault next to the stored one
Ciphertexts ==
    {hv_ciphertext, FlipByte(hv_ciphertext)}
    \cup {AesGcmEncrypt(derive_key(RightMaster, hv_metadata.salt), hv_metadata.nonce, f) :
          f \in ForgedPayloads}

\* the stored metadata with another version, another update time or another
\* password_count
TamperedMetadata ==
    {[hv_metadata EXCEPT !.version = "2.0"],
     [hv_metadata EXCEPT !.updated_at = @ + 1],
     [hv_metadata EXCEPT !.password_count = @ + 1]}

\* the arguments handed to decrypt_vault: any of the ciphertexts and either
\* master with the stored metadata, and the stored ciphertext and the right
\* master with tampered metadata
DecryptCalls ==
    {[ciphertext |-> c, master_password |-> master, metadata |-> hv_metadata] :
        c \in Ciphertexts, master \in Masters}
    \cup {[ciphertext |-> hv_ciphertext, master_password |-> RightMaster,
           metadata |-> md] : md \in TamperedMetadata}

\* vault = vault_system.decrypt_vault(c, master, metadata) on a vault that
\* RightMaster sealed
DecryptVault ==
    /\ hv_op \in {"encrypt_vault", "add_password"}
    /\ hv_op = "add_password" => hv_call.master_password = RightMaster
    /\ hv_result.raised = "none"
    /\ \E call \in DecryptCalls :
          \E r \in decrypt_vault(model, call.ciphertext, call.master_password,
                                  call.metadata) :
             /\ hv_call' = call
             /\ hv_result' = r
    /\ hv_op' = "decrypt_vault"
    /\ UNCHANGED <<hv_passwords, hv_new_entry, hv_ciphertext, hv_metadata, hv_clock,
                   hv_prev, codecVars, tokVars, symVars>>
    /\ UNCHANGED monVars

\* the same decrypt_vault call once more
DecryptVaultAgain ==
    /\ hv_op = "decrypt_vault"
    /\ hv_result.raised = "none"
    /\ hv_call.master_password = WrongMaster
    /\ hv_call.ciphertext = hv_ciphertext
    /\ \E r \in decrypt_vault(model, hv_call.ciphertext, hv_call.master_password,
                              hv_call.metadata) :
          hv_result' = r
    /\ hv_prev' = hv_result
    /\ hv_op' = "decrypt_vault_again"
    /\ UNCHANGED <<hv_passwords, hv_new_entry, hv_ciphertext, hv_metadata, hv_clock,
                   hv_call, codecVars, tokVars, symVars>>
    /\ UNCHANGED monVars

\* ciphertext, metadata = vault_system.add_password(ciphertext, metadata, master, EntryB)
\* with either master
AddPassword ==
    /\ hv_op = "encrypt_vault"
    /\ hv_result.raised = "none"
    /\ hv_passwords \in {<<>>, <<EntryA>>}
    /\ hv_metadata.has_honey_accounts = FALSE
    /\ \E master \in Masters :
          \E r \in add_password(model, hv_ciphertext, hv_metadata, master, EntryB,
                                hv_clock, hv_clock, hv_clock) :
             /\ hv_call' = [ciphertext |-> hv_ciphertext, master_password |-> master,
                            metadata |-> hv_metadata]
             /\ hv_ciphertext' = r.ciphertext
             /\ hv_metadata' = r.metadata
             /\ hv_result' = [raised |-> r.raised, value |-> <<>>, branch |-> "none"]
    /\ hv_new_entry' = Append(hv_new_entry, EntryB)
    /\ hv_clock' = hv_clock + 1
    /\ hv_op' = "add_password"
    /\ UNCHANGED <<hv_passwords, hv_prev, codecVars, tokVars, symVars>>
    /\ UNCHANGED monVars

(***************************************************************************)
(* HoneyAccountMonitor: one asyncio task per monitored account.  The tasks  *)
(* share one event loop: a task runs until it awaits something that        *)
(* suspends it, and only then does another task run.                       *)
(***************************************************************************)
\* MonitorConfig.alert_cooldown_minutes and check_interval_seconds, in minutes
alert_cooldown_minutes == 2
check_interval_minutes == 1

\* the clock readings of a run are 0..MaxTime
MaxTime == 3

\* the honey_accounts lists handed to start_monitoring: one account, two
\* accounts with ids of their own, two accounts without 'id' and one username
MonitoredLists ==
    LET canary == [website |-> "honey-bank.com", username |-> "canary"]
        canary_mail == [website |-> "mail.example", username |-> "canary"]
        decoy == [id |-> "decoy-1", website |-> "github.com", username |-> "decoy"]
    IN {<<canary>>, <<canary, decoy>>, <<canary, canary_mail>>}

\* account_id = account.get('id', account['username'])
account_id_of(account) ==
    IF "id" \in DOMAIN account THEN account.id ELSE account.username

\* HoneyAccountMonitor._should_send_alert
should_send_alert(account_id) ==
    \/ account_id \notin DOMAIN mon_last_alerts
    \/ mon_now - mon_last_alerts[account_id] > alert_cooldown_minutes

\* self.last_alerts[account_id] = datetime.now()
last_alerts_set(account_id) ==
    [k \in DOMAIN mon_last_alerts \cup {account_id} |->
        IF k = account_id THEN mon_now ELSE mon_last_alerts[k]]

MonInit ==
    /\ mon_running = FALSE
    /\ mon_transport = FALSE
    /\ mon_accounts = <<>>
    /\ mon_pc = <<>>
    /\ mon_wake = <<>>
    /\ mon_last_alerts = [k \in {} |-> 0]
    /\ mon_now = 0
    /\ mon_sent = <<>>

\* await monitor.start_monitoring(honey_accounts): a task per account, each
\* suspended in its first _check_login_attempt
StartMonitoring ==
    /\ ~mon_running
    /\ mon_accounts = <<>>
    /\ \E accounts \in MonitoredLists, transport \in BOOLEAN :
          /\ mon_accounts' = accounts
          /\ mon_transport' = transport
          /\ mon_pc' = [t \in 1..Len(accounts) |-> "checking"]
          /\ mon_wake' = [t \in 1..Len(accounts) |-> 0]
    /\ mon_running' = TRUE
    /\ UNCHANGED <<mon_last_alerts, mon_now, mon_sent>>
    /\ UNCHANGED <<codecVars, tokVars, hvVars, symVars>>

\* _monitor_account from the return of _check_login_attempt to the next await:
\* the cooldown check, the BreachAlert and the call of _send_alert, which
\* suspends the task when it has a transport to await; without one it returns at
\* once, last_alerts is set and the task sleeps
LoginChecked ==
    \E t \in 1..Len(mon_accounts), login_detected \in BOOLEAN :
       LET account == mon_accounts[t]
           account_id == account_id_of(account)
           alert == [honey_account_id |-> account_id,
                     website |-> account.website,
                     username |-> account.username,
                     timestamp |-> mon_now]
       IN /\ mon_pc[t] = "checking"
          /\ IF login_detected /\ should_send_alert(account_id)
             THEN /\ mon_sent' = Append(mon_sent, alert)
                  /\ IF mon_transport
                     THEN /\ mon_pc' = [mon_pc EXCEPT ![t] = "sending"]
                          /\ UNCHANGED <<mon_last_alerts, mon_wake>>
                     ELSE /\ mon_last_alerts' = last_alerts_set(account_id)
                          /\ mon_pc' = [mon_pc EXCEPT ![t] = "sleeping"]
                          /\ mon_wake' = [mon_wake EXCEPT ![t] = mon_now + check_interval_minutes]
             ELSE /\ mon_pc' = [mon_pc EXCEPT ![t] = "sleeping"]
                  /\ mon_wake' = [mon_wake EXCEPT ![t] = mon_now + check_interval_minutes]
                  /\ UNCHANGED <<mon_last_alerts, mon_sent>>
          /\ UNCHANGED <<mon_running, mon_transport, mon_accounts, mon_now>>
          /\ UNCHANGED <<codecVars, tokVars, hvVars, symVars>>

\* _monitor_account from the return of "await self._send_alert(alert)" to the
\* sleep: "Update last alert time"
AlertSent ==
    \E t \in 1..Len(mon_accounts) :
       /\ mon_pc[t] = "sending"
       /\ mon_last_alerts' = last_alerts_set(account_id_of(mon_accounts[t]))
       /\ mon_pc' = [mon_pc EXCEPT ![t] = "sleeping"]
       /\ mon_wake' = [mon_wake EXCEPT ![t] = mon_now + check_interval_minutes]
       /\ UNCHANGED <<mon_running, mon_transport, mon_accounts, mon_now, mon_sent>>
       /\ UNCHANGED <<codecVars, tokVars, hvVars, symVars>>

\* asyncio.sleep(check_interval_seconds) returns, "while self.running" is tested
\* and the task suspends in the next _check_login_attempt
Wake ==
    \E t \in 1..Len(mon_accounts) :
       /\ mon_pc[t] = "sleeping"
       /\ mon_now >= mon_wake[t]
       /\ mon_pc' = [mon_pc EXCEPT ![t] = IF mon_running THEN "checking" ELSE "done"]
       /\ UNCHANGED <<mon_running, mon_transport, mon_accounts, mon_wake,
                      mon_last_alerts, mon_now, mon_sent>>
       /\ UNCHANGED <<codecVars, tokVars, hvVars, symVars>>

\* a minute passes
Tick ==
    /\ mon_running
    /\ mon_now < MaxTime
    /\ mon_now' = mon_now + 1
    /\ UNCHANGED <<mon_running, mon_transport, mon_accounts, mon_pc, mon_wake,
                   mon_last_alerts, mon_sent>>
    /\ UNCHANGED <<codecVars, tokVars, hvVars, symVars>>

\* await monitor.stop_monitoring(): every task is cancelled where it is suspended
StopMonitoring ==
    /\ mon_running
    /\ mon_running' = FALSE
    /\ mon_pc' = [t \in 1..Len(mon_accounts) |-> "done"]
    /\ UNCHANGED <<mon_transport, mon_accounts, mon_wake, mon_last_alerts, mon_now,
                   mon_sent>>
    /\ UNCHANGED <<codecVars, tokVars, hvVars, symVars>>

\* encode, append, decode what was encoded
Init == CodecInit /\ TokInit /\ HvInit /\ SymInit /\ MonInit
Next ==
    \/ EncodeVault
    \/ EncodeIncremental
    \/ DecodeEncoded
Spec == Init /\ [][Next]_vars

\* encode, append
NextAppend ==
    \/ EncodeVault
    \/ EncodeIncremental
SpecAppend == Init /\ [][NextAppend]_vars

\* decode any bytes, and once more
NextDecode ==
    \/ DecodeArbitrary
    \/ DecodeAgain
SpecDecode == Init /\ [][NextDecode]_vars

\* one symbol: written, read back; and read from any seed
NextSymbol ==
    \/ IntervalToSeed
    \/ SeedToCharacter
    \/ SeedToCharacterAny
SpecSymbol == Init /\ [][NextSymbol]_vars

\* the tokenizer alone
NextTok ==
    \/ TokEncodeVault
    \/ TokDecodeVault
SpecTok == Init /\ [][NextTok]_vars

\* the vault: encrypt, add, decrypt
NextVault ==
    \/ EncryptVault
    \/ AddPassword
    \/ DecryptVault
SpecVault == Init /\ [][NextVault]_vars

\* the vault: encrypt, decrypt, decrypt again
NextRetry ==
    \/ EncryptVault
    \/ DecryptVault
    \/ DecryptVaultAgain
SpecRetry == Init /\ [][NextRetry]_vars

\* the monitor: start, the steps of the tasks, the clock, stop
NextMonitor ==
    \/ StartMonitoring
    \/ LoginChecked
    \/ AlertSent
    \/ Wake
    \/ Tick
    \/ StopMonitoring
SpecMonitor == Init /\ [][NextMonitor]_vars

(***************************************************************************)
(* Properties of the codec                                                 *)
(***************************************************************************)

\* sub occurs in s
Contains(s, sub) ==
    \E i \in 0..(Len(s) - Len(sub)) : SubSeq(s, i + 1, i + Len(sub)) = sub

HasReservedSymbol(s) ==
    Contains(s, SEP_STR) \/ Contains(s, PAD_STR) \/ Contains(s, UNK_STR)

\* C1: decoding the seed that encode_vault produced for a list of passwords
\* over the printable alphabet, with max_passwords the length of the list,
\* returns exactly that list.
C1_RoundTrip ==
    (op = "decode_encoded" /\ AllPrintable(vault)) => decoded = vault

\* C6: decoding the seed that encode_incremental produced from the seed of P
\* and a new password p, with max_passwords = |P| + 1, returns P followed by p.
C6_IncrementalKeepsPrefix ==
    (op = "decode_incremental" /\ AllPrintable(vault))
        => decoded = Append(vault, new_password)

\* C8: decode_seed on any byte string and any k returns at most k passwords,
\* and none of them contains a reserved symbol.
C8_DecodeTotalPlausible ==
    op = "decode_arbitrary"
        => /\ Len(decoded) <= max_passwords
           /\ \A i \in 1..Len(decoded) : ~HasReservedSymbol(decoded[i])

\* C9: encode_vault on a password with a character outside the printable
\* alphabet raises InvalidInput and returns no seed.
C9_RejectsInvalidInput ==
    (op = "encode_vault" /\ ~AllPrintable(vault)) => raised = "InvalidInput"

C14_EmptyVaultSeed ==
    /\ (op \in {"encode_vault", "decode_encoded"} /\ vault = <<>>)
          => /\ seed.len > 0
             /\ [raised |-> "none", value |-> seed]
                  \in {seed_bytes_of(st) :
                          st \in encode_separator(model,
                                    {[seed_value |-> <<>>, bits_used |-> 0,
                                      context |-> SEP_STR]})}
    /\ (op = "decode_encoded" /\ vault = <<>>)
          => max_passwords = 0 /\ decoded = <<>>

\* C15: when _interval_to_seed returns the chunk (v, b) for the interval of a
\* symbol s of positive probability, _seed_to_character on a seed whose low b
\* bits are v, under the same distribution, returns (s, b).
C15_SymbolRoundTrip ==
    (sym_op = "seed_to_character" /\ DistTable[sym_probs][sym_char] > 0)
        => sym_result = <<sym_char, sym_chunk[2]>>

\* C16: _seed_to_character returns, for every seed value and every
\* distribution, a symbol id in 0..|A|-1 and a number of consumed bits in 1..32.
C16_SymbolDecoderTotal ==
    sym_op \in {"seed_to_character", "seed_to_character_any"}
        => /\ sym_result[1] \in 0..(vocab_size - 1)
           /\ sym_result[2] \in 1..MaxChunkBits

\* the seed 2^32 - 1 under the distribution whose cumulative sum stops short of
\* 1.0: no width verifies, and the fallback returns the last symbol id
C16_Witness ==
    /\ sym_op = "seed_to_character_any"
    /\ sym_probs = 4
    /\ Len(sym_seed) = MaxChunkBits
    /\ sym_result = <<vocab_size - 1, MaxChunkBits>>

\* C17: for a symbol whose interval has the size p, _interval_to_seed returns a
\* chunk of clamp(ceil(-log2(p)) + 1, 1, 32) bits; ceil(-log2(p)) is the least e
\* with 2^-e <= p, and the width is 32 for an interval of size 0.
C17_ChunkWidth ==
    sym_op = "interval_to_seed"
        => LET p == DistTable[sym_probs][sym_char]
               ceil == CHOOSE e \in 0..ProbBits :
                          /\ p * 2 ^ e >= One
                          /\ \A d \in 0..(e - 1) : p * 2 ^ d < One
           IN sym_chunk[2] = IF p = 0 THEN MaxChunkBits
                             ELSE Min(Max(ceil + 1, 1), MaxChunkBits)

\* C18: decode_seed stops at the latest when the seed is exhausted: the chunk
\* bits it has read when it returns are at most the 8 * len(seed) bits of the
\* seed; and it has decoded at most max_total_length symbols.
C18_StopsAtSeedEnd ==
    op = "decode_arbitrary"
        => /\ decode_run(model, seed, max_passwords, max_total_length).bits_read
                  <= 8 * seed.len
           /\ decode_run(model, seed, max_passwords, max_total_length).chars_decoded
                  <= max_total_length

\* C19: the intervals _get_cumulative_interval gives the symbol ids 0..|A|-1
\* under a distribution partition [0, 1): the first starts at 0, each starts
\* where the one before ends, none ends before it starts, the last ends at 1.
C19_IntervalPartition ==
    sym_op = "interval_to_seed"
        => /\ get_cumulative_interval(0, sym_probs)[1] = 0
           /\ \A i \in 1..(vocab_size - 1) :
                 get_cumulative_interval(i, sym_probs)[1]
                     = get_cumulative_interval(i - 1, sym_probs)[2]
           /\ \A i \in TokenIds :
                 get_cumulative_interval(i, sym_probs)[1]
                     <= get_cumulative_interval(i, sym_probs)[2]
           /\ get_cumulative_interval(vocab_size - 1, sym_probs)[2] = One

\* C20: the seed encode_incremental(old_seed, p, context) returns starts with
\* the bytes of old_seed: its leading len(old_seed) bytes are old_seed.
C20_IncrementalKeepsOldSeed ==
    (op = "encode_incremental" /\ raised = "none")
        => /\ seed.len >= old_seed.len
           /\ LeadingBytes(seed, old_seed.len) = old_seed

\* a password appended to a seed that is not zero: the new seed is longer and
\* starts with the old one
C20_Witness ==
    /\ op = "encode_incremental"
    /\ raised = "none"
    /\ old_seed.val # <<>>
    /\ seed.len > old_seed.len
    /\ LeadingBytes(seed, old_seed.len) = old_seed

\* C21: the chunk decode_seed reads first, the least significant bits of the
\* seed in the width _seed_to_character consumes, is the chunk encode_vault
\* wrote last: the chunk of the final SEP, in the width _interval_to_seed gave it.
C21_FirstReadIsLastWritten ==
    (op = "decode_encoded" /\ vault # <<>> /\ AllPrintable(vault))
        => LET before == SEP_STR \o Join(SEP_STR, vault)
               iv == get_cumulative_interval(SEP_ID,
                         get_char_probabilities(model, before))
               written == bits_needed_of(iv[1], iv[2])
               read == seed_to_character(seed.val,
                           get_char_probabilities(model, SEP_STR))[2]
           IN <<LowBits(seed.val, read), read>> = <<LowBits(seed.val, written), written>>

\* C22: the seed encode_incremental returns is the old seed's bits followed
\* directly by the chunk bits of the new password and its SEP: as an integer
\* it is (old << n) | chunks, with n the number of chunk bits appended.
C22_IncrementalBitConcatenation ==
    (op = "encode_incremental" /\ raised = "none")
        => \E st \in incremental_chunks(model, new_password, vault) :
              from_bytes(seed) = BitOr(Shl(from_bytes(old_seed), st.bits_used),
                                       st.seed_value)

\* C23: under one distribution no two different symbols are encoded by
\* _interval_to_seed to the same pair (chunk, width): the chunk just written
\* for one symbol is not a chunk any other symbol of the row can be given.
C23_ForwardInjective ==
    sym_op = "interval_to_seed"
        => \A other \in TokenIds \ {sym_char} :
              sym_chunk \notin
                  interval_to_seed(get_cumulative_interval(other, sym_probs)[1],
                                   get_cumulative_interval(other, sym_probs)[2])

\* C24: no password decode_seed returns is longer than max_password_length,
\* 25 characters.
C24_DecodedLengthBound ==
    op \in {"decode_arbitrary", "decode_again"}
        => \A i \in 1..Len(decoded) : Len(decoded[i]) <= MaxPasswordLength

\* C27: every chunk (v, b) that _interval_to_seed returns fits its width,
\* 0 <= v < 2^b, whatever the interval.
C27_ChunkFitsWidth ==
    sym_op = "interval_to_seed" => BitLen(sym_chunk[1]) <= sym_chunk[2]

\* C28: encode_incremental(old_seed, p, P) encodes every symbol of p and the
\* SEP after it under the context encode_vault(P + [p]) uses for that symbol.
\* Both extend the context by the symbols of p, so the contexts agree symbol by
\* symbol exactly when they agree after the last one.
C28_IncrementalContext ==
    (op = "encode_incremental" /\ raised = "none")
        => \A inc \in incremental_chunks(model, new_password, vault) :
              \A full \in encode_passwords(model,
                              {[seed_value |-> <<>>, bits_used |-> 0, context |-> SEP_STR]},
                              Append(vault, new_password)) :
                 inc.context = full.context

(***************************************************************************)
(* Properties of the tokenizer                                             *)
(***************************************************************************)

\* C10: decode_vault(encode_vault(P)) = P for every list P of printable strings,
\* and the stream of encode_vault starts with the SEP symbol and holds one SEP
\* symbol after each password.
C10_TokenizerRoundTrip ==
    tok_op = "decode_vault"
        => /\ tok_decoded = tok_passwords
           /\ tok_ids # <<>>
           /\ tok_ids[1] = SEP_ID
           /\ Cardinality({i \in DOMAIN tok_ids : tok_ids[i] = SEP_ID})
                  = Len(tok_passwords) + 1

(***************************************************************************)
(* Properties of the vault                                                 *)
(***************************************************************************)

Decrypted == hv_op \in {"decrypt_vault", "decrypt_vault_again"}

\* C2: decrypt_vault returns a vault for every ciphertext and every master; it
\* never raises.
C2_DecryptTotal == Decrypted => hv_result.raised = "none"

\* C3: when a byte of the ciphertext was flipped or the master is not the one
\* that encrypted, the AES-GCM check fails and decrypt_vault returns a decoy
\* vault with exactly metadata.password_count entries.
C3_AuthFailureGivesDecoy ==
    (Decrypted /\ (hv_call.ciphertext.flipped \/ hv_call.master_password # RightMaster))
        => /\ hv_result.raised = "none"
           /\ hv_result.branch = "decrypt_failed"
           /\ Len(hv_result.value) = hv_call.metadata.password_count

\* a flipped byte in a vault of two entries, opened with the right master
C3_Witness ==
    /\ hv_op = "decrypt_vault"
    /\ hv_call.ciphertext = FlipByte(hv_ciphertext)
    /\ hv_call.master_password = RightMaster
    /\ hv_call.metadata.password_count = 2
    /\ hv_result.branch = "decrypt_failed"
    /\ Len(hv_result.value) = 2

\* C4: two decrypt_vault calls with the same ciphertext, metadata and wrong
\* master return the same vault.
C4_WrongKeyDecoyStable ==
    (hv_op = "decrypt_vault_again" /\ hv_call.master_password # RightMaster)
        => hv_result = hv_prev

\* C5: the entries of the vault returned for a wrong master have the fields and
\* the index-keyed website and username names of the honey-encrypted entries of
\* a real vault.
C5_DecoyStructure ==
    (Decrypted /\ hv_call.master_password # RightMaster /\ hv_result.raised = "none")
        => hv_result.value
             = honey_entries([i \in 1..Len(hv_result.value) |-> hv_result.value[i].password])

\* the vaults decrypt_vault can return for encrypt_vault(entries, RightMaster)
DirectOutcomes(entries) ==
    UNION {{d.value : d \in decrypt_vault(model, e.ciphertext, RightMaster, e.metadata)} :
           e \in {x \in encrypt_vault(model, entries, RightMaster, <<>>, 1, 1, 1) :
                     x.raised = "none"}}

\* C7: the vault decrypted after add_password(b) on encrypt_vault(P, m) is one
\* that decrypting encrypt_vault(P + [b], m) can return.
C7_IncrementalEquivalence ==
    (/\ hv_op = "decrypt_vault"
     /\ hv_new_entry # <<>>
     /\ hv_call.master_password = RightMaster
     /\ hv_call.ciphertext = hv_ciphertext
     /\ hv_call.metadata = hv_metadata
     /\ hv_result.raised = "none")
        => hv_result.value \in DirectOutcomes(hv_passwords \o hv_new_entry)

\* C12: the JSON text sealed next to the seed by encrypt_vault holds the entries
\* kept in plaintext and the honey-account stubs, and no honey-encrypted
\* password: whatever else it holds is empty.
C12_SidecarHidesHoneyPasswords ==
    (hv_op = "encrypt_vault" /\ hv_result.raised = "none")
        => LET sidecar == hv_ciphertext.plaintext.vault_json.value.items
           IN /\ {"plaintext_entries", "honey_accounts"} \subseteq DOMAIN sidecar
              /\ \A f \in DOMAIN sidecar \ {"plaintext_entries", "honey_accounts"} :
                    sidecar[f] = <<>>

\* C13: decrypt_vault with the right master, the stored ciphertext and metadata
\* whose version, update time or password_count is not the one encrypt_vault
\* returned fails the AES-GCM check and returns a decoy, not the real vault.
C13_MetadataAuthenticated ==
    (/\ hv_op = "decrypt_vault"
     /\ hv_call.master_password = RightMaster
     /\ hv_call.ciphertext = hv_ciphertext
     /\ \/ hv_call.metadata.version # hv_metadata.version
        \/ hv_call.metadata.created_at # hv_metadata.created_at
        \/ hv_call.metadata.updated_at # hv_metadata.updated_at
        \/ hv_call.metadata.password_count # hv_metadata.password_count)
        => hv_result.branch = "decrypt_failed"

\* C25: encrypt_vault puts the passwords of the entries whose website is not an
\* unlimited-login site into the seed, in input order, and nothing else; the
\* other entries are plaintext_entries, in input order, each with a generated
\* password of 32 characters; password_count is the number of entries.
C25_EntriesSplitInTwo ==
    (hv_op = "encrypt_vault" /\ hv_result.raised = "none")
        => LET OnUnlimitedSite(entry) == Lower(entry.website) \in UNLIMITED_LOGIN_SITES
               OnLimitedSite(entry) == ~OnUnlimitedSite(entry)
               payload == hv_ciphertext.plaintext
               data == payload.vault_json.value.items
               honey == SelectSeq(hv_passwords, OnLimitedSite)
               plain == SelectSeq(hv_passwords, OnUnlimitedSite)
               honey_passwords == [i \in 1..Len(honey) |-> honey[i].password]
           IN /\ payload.seed \in
                     IF honey = <<>> THEN {EmptyBytes}
                     ELSE {r.value : r \in {e \in encode_vault(model, honey_passwords) :
                                                e.raised = "none"}}
              /\ data.plaintext_entries = plain
              /\ \A i \in 1..Len(plain) :
                     /\ Len(plain[i].password) = SecureRandomLength
                     /\ plain[i].password \in generate_secure_random_password
              /\ hv_metadata.password_count = Len(hv_passwords)

\* a vault with an entry on an unlimited-login site written with capitals and
\* an entry on another site: one password in the seed, one entry in plaintext
C25_Witness ==
    /\ hv_op = "encrypt_vault"
    /\ hv_result.raised = "none"
    /\ Len(hv_passwords) = 2
    /\ hv_passwords[1].website = "Gaming-Site.com"
    /\ Len(hv_ciphertext.plaintext.vault_json.value.items.plaintext_entries) = 1
    /\ hv_ciphertext.plaintext.seed # EmptyBytes
    /\ hv_metadata.password_count = 2

\* C26: after add_password(c, md, m, e) with any master m, every password that
\* decrypt_vault yields for c under the master that created it is among the
\* passwords it yields for the returned ciphertext under that master.
C26_AddPasswordKeepsVault ==
    (hv_op = "add_password" /\ hv_result.raised = "none")
        => \A before \in decrypt_vault(model, hv_call.ciphertext, RightMaster,
                                        hv_call.metadata) :
              \A after \in decrypt_vault(model, hv_ciphertext, RightMaster, hv_metadata) :
                 {before.value[i].password : i \in 1..Len(before.value)}
                     \subseteq {after.value[i].password : i \in 1..Len(after.value)}

\* C29: decrypt_vault with the right master on what encrypt_vault or
\* add_password returned gives exactly metadata.password_count entries that are
\* not honey accounts.
C29_EntryCount ==
    (/\ hv_op = "decrypt_vault"
     /\ hv_call.master_password = RightMaster
     /\ hv_call.ciphertext = hv_ciphertext
     /\ hv_call.metadata = hv_metadata
     /\ hv_result.raised = "none")
        => Cardinality({i \in 1..Len(hv_result.value) :
                           "is_honey_account" \notin DOMAIN hv_result.value[i]})
              = hv_metadata.password_count

(***************************************************************************)
(* Properties of the monitor                                               *)
(***************************************************************************)
\* C30: two breach alerts for one account id are never handed to _send_alert
\* less than alert_cooldown_minutes apart.
C30_AlertCooldown ==
    \A i \in 1..Len(mon_sent) : \A j \in (i + 1)..Len(mon_sent) :
       mon_sent[i].honey_account_id = mon_sent[j].honey_account_id
          => mon_sent[j].timestamp - mon_sent[i].timestamp >= alert_cooldown_minutes

====
